---- MODULE Spec2Model ----
(***************************************************************************)
(* Model of the Swal controller of leptos-sweetalert (src/src/lib.rs,      *)
(* module Swal) together with the result and option types it uses.         *)
(*                                                                         *)
(* The browser is modelled as a single-threaded event loop: one action is  *)
(* one complete run of a handler (a public call made by the host page, a   *)
(* DOM event listener, or a set_timeout closure).  Time is counted in      *)
(* units of the fixed 0.01 s delay used by fire and open.                  *)
(***************************************************************************)
EXTENDS Integers, Sequences, FiniteSets, TLC

(***************************************************************************)
(* Bounds of the model.                                                    *)
(***************************************************************************)
\* number of fire calls explored (each fire gets a fresh alert identity)
MaxFires == 2
\* number of set_timeout closures pending at once
MaxTimers == 2

(***************************************************************************)
(* Option<T>: None is the empty sequence, Some(x) the one-element sequence.*)
(***************************************************************************)
None == <<>>
Some(x) == <<x>>

(***************************************************************************)
(* SwalDismissReason and SwalResult.                                       *)
(***************************************************************************)
SwalDismissReason == {"Backdrop", "Cancel", "Close", "Esc"}

confirmed ==
    [is_confirmed |-> TRUE, value |-> TRUE, is_denied |-> FALSE,
     is_dismissed |-> FALSE, dismiss |-> None]

denied ==
    [is_confirmed |-> FALSE, value |-> FALSE, is_denied |-> TRUE,
     is_dismissed |-> FALSE, dismiss |-> None]

\* faulty variant of canceled: the reason is not recorded
canceled_without_reason(reason) ==
    [is_confirmed |-> FALSE, value |-> FALSE, is_denied |-> FALSE,
     is_dismissed |-> TRUE, dismiss |-> None]

canceled(reason) ==
    [is_confirmed |-> FALSE, value |-> FALSE, is_denied |-> FALSE,
     is_dismissed |-> TRUE, dismiss |-> Some(reason)]

(***************************************************************************)
(* SwalIcon: the pre-built icons, by name; NONE is the default icon.       *)
(***************************************************************************)
SwalIcon == {"info", "error", "success", "warning", "question", "NONE"}

\* the titles and texts explored; "" is S::default()
Strs == {"", "Hello", "World", "!"}

(***************************************************************************)
(* SwalOptions.  The hooks are named by what their body does, the then     *)
(* callback and the body view by their default.  OptionsOf names the       *)
(* options the controller is run with: those of the demonstration          *)
(* application (basic, success, warning), the warning                      *)
(* options with a cancel button added (locked) and the basic options       *)
(* without animation (plain).                                              *)
(*   pre_confirm: "noop" | "close_confirmed"  (Swal::close(Some(confirmed)))*)
(*   pre_deny:    "noop" | "fire_inner"       (Swal::fire(inner options))  *)
(***************************************************************************)
\* faulty variant of default: the deny button is shown
SwalOptionsDefault_deny_shown ==
    [title |-> "", text |-> "", icon |-> "NONE",
     show_confirm_button |-> TRUE, show_deny_button |-> TRUE,
     show_cancel_button |-> FALSE,
     confirm_button_text |-> "", cancel_button_text |-> "", deny_button_text |-> "",
     pre_confirm |-> "noop", pre_deny |-> "noop", then |-> "noop",
     auto_close |-> TRUE, animation |-> TRUE, body |-> "default"]

SwalOptionsDefault ==
    [title |-> "", text |-> "", icon |-> "NONE",
     show_confirm_button |-> TRUE, show_deny_button |-> FALSE,
     show_cancel_button |-> FALSE,
     confirm_button_text |-> "", cancel_button_text |-> "", deny_button_text |-> "",
     pre_confirm |-> "noop", pre_deny |-> "noop", then |-> "noop",
     auto_close |-> TRUE, animation |-> TRUE, body |-> "default"]

\* Self { title, ..Self::default() }
basic(title) == [SwalOptionsDefault EXCEPT !.title = title]

basic_icon(title, icon) == [SwalOptionsDefault EXCEPT !.title = title, !.icon = icon]

\* faulty variant of common: the text is not stored
common_without_text(title, text, icon) ==
    [SwalOptionsDefault EXCEPT !.title = title, !.icon = icon]

common(title, text, icon) ==
    [SwalOptionsDefault EXCEPT !.title = title, !.text = text, !.icon = icon]

OptionsOf(name) ==
    CASE name = "basic" ->
           SwalOptionsDefault
      [] name = "success" ->
           [SwalOptionsDefault EXCEPT !.show_cancel_button = TRUE,
                                      !.show_deny_button = TRUE,
                                      !.pre_deny = "fire_inner"]
      [] name = "warning" ->
           [SwalOptionsDefault EXCEPT !.show_deny_button = TRUE,
                                      !.auto_close = FALSE,
                                      !.pre_confirm = "close_confirmed"]
      [] name = "locked" ->
           [SwalOptionsDefault EXCEPT !.show_cancel_button = TRUE,
                                      !.show_deny_button = TRUE,
                                      !.auto_close = FALSE,
                                      !.pre_confirm = "close_confirmed"]
      [] name = "plain" ->
           [SwalOptionsDefault EXCEPT !.animation = FALSE]

\* the options a host page passes to fire
HostOptions == {"success", "locked"}

\* the options fired by the pre_deny hook of "success" (main.rs:30-38)
InnerOptions == "basic"

(***************************************************************************)
(* Computed style.  A transition-duration value is a string of characters; *)
(* the digits before the unit character count time units.                  *)
(***************************************************************************)
Digits == {"0", "1", "2", "3", "4", "5", "6", "7", "8", "9"}

DigitValue(c) ==
    CASE c = "0" -> 0 [] c = "1" -> 1 [] c = "2" -> 2 [] c = "3" -> 3
      [] c = "4" -> 4 [] c = "5" -> 5 [] c = "6" -> 6 [] c = "7" -> 7
      [] c = "8" -> 8 [] c = "9" -> 9

RECURSIVE ParseDigits(_)
ParseDigits(str) ==
    IF Len(str) = 0 THEN 0
    ELSE 10 * ParseDigits(SubSeq(str, 1, Len(str) - 1)) + DigitValue(str[Len(str)])

\* str.parse::<f32>(): Some(number) or None when str is not a number
ParseF32(str) ==
    IF Len(str) > 0 /\ \A i \in 1..Len(str) : str[i] \in Digits
    THEN Some(ParseDigits(str))
    ELSE None

\* get_property_value("transition-duration"): Ok(string) or Err
StyleOk(str) == [ok |-> TRUE, val |-> str]
StyleErr == [ok |-> FALSE, val |-> <<>>]

WellFormedStyles == {StyleOk(<<"0", "s">>), StyleOk(<<"2", "s">>)}

VARIABLES
    dom,                  \* the nodes with id "swal" under body, in document order
    THEN_CALLBACK,        \* Option<alert whose then is stored>
    AUTO_CLOSE,           \* the stored auto_close flag
    TRANSITION_DURATION,  \* memoized duration, -1 = not computed
    timers,               \* pending set_timeout closures, in registration order
    style,                \* computed transition-duration by animation flag
    nextId,               \* identity given to the next fired options value
    delivered,            \* the live alerts whose then callback has been invoked
    last,                 \* the handler that ran last: name, inputs, result
    trace                 \* what the handler that ran last did, in order

vars == <<dom, THEN_CALLBACK, AUTO_CLOSE, TRANSITION_DURATION, timers, style,
          nextId, delivered, last, trace>>

Alerts == 1..MaxFires

(***************************************************************************)
(* The state a handler works on, as a record, so that the calls a handler  *)
(* makes compose.  panic is set when an expect/unwrap aborts the handler;  *)
(* the steps after it are skipped.                                         *)
(***************************************************************************)
Cur ==
    [dom |-> dom, THEN_CALLBACK |-> THEN_CALLBACK, AUTO_CLOSE |-> AUTO_CLOSE,
     TRANSITION_DURATION |-> TRANSITION_DURATION, timers |-> timers,
     style |-> style, nextId |-> nextId, delivered |-> delivered,
     trace |-> <<>>, ret |-> None, panic |-> FALSE]

\* one step of a handler: what was done (ev), to which alert's node or with
\* which alert's callback (id), with which result (res), and for a then call
\* whether it was made through opt.then ("opt") or THEN_CALLBACK ("stored")
Event(ev, id, res, via) == [ev |-> ev, id |-> id, res |-> res, via |-> via]

Log(s, ev, id, res) == [s EXCEPT !.trace = Append(@, Event(ev, id, res, ""))]

\* (then)(result) for the then callback of alert id: the callback only logs
call_then(s, id, result, via) ==
    LET s1 == [s EXCEPT !.trace = Append(@, Event("then", id, Some(result), via))]
    IN [s1 EXCEPT !.delivered = @ \cup {id}]

\* document().get_element_by_id("swal"): the first such node in document order
get_swal(s) == IF Len(s.dom) = 0 THEN None ELSE Some(s.dom[1])

is_swal_open(s) == get_swal(s) # None

set_timeout(s, kind, id, opt, dur) ==
    [s EXCEPT !.timers = Append(@, [kind |-> kind, id |-> id, opt |-> opt,
                                    dur |-> dur, rem |-> dur])]

\* faulty variant of get_transition_duration: the style is read on every call
get_transition_duration_uncached(s, el) ==
    LET css_value == s.style[OptionsOf(el.opt).animation]
    IN IF css_value.ok
       THEN IF Len(css_value.val) = 0
            THEN [s |-> [s EXCEPT !.panic = TRUE], val |-> 0]
            ELSE LET result == ParseF32(SubSeq(css_value.val, 1,
                                               Len(css_value.val) - 1))
                 IN IF result = None
                    THEN [s |-> [s EXCEPT !.panic = TRUE], val |-> 0]
                    ELSE [s |-> [s EXCEPT !.TRANSITION_DURATION = result[1]],
                          val |-> result[1]]
       ELSE [s |-> s, val |-> 0]

\* faulty variant of get_transition_duration: the fallback 0 is stored too
get_transition_duration_caches_fallback(s, el) ==
    IF s.TRANSITION_DURATION # -1
    THEN [s |-> s, val |-> s.TRANSITION_DURATION]
    ELSE LET css_value == s.style[OptionsOf(el.opt).animation]
         IN IF css_value.ok
            THEN IF Len(css_value.val) = 0
                 THEN [s |-> [s EXCEPT !.panic = TRUE], val |-> 0]
                 ELSE LET result == ParseF32(SubSeq(css_value.val, 1,
                                                    Len(css_value.val) - 1))
                      IN IF result = None
                         THEN [s |-> [s EXCEPT !.panic = TRUE], val |-> 0]
                         ELSE [s |-> [s EXCEPT !.TRANSITION_DURATION = result[1]],
                               val |-> result[1]]
            ELSE [s |-> [s EXCEPT !.TRANSITION_DURATION = 0], val |-> 0]

\* get_transition_duration(el): the pair of the new state and the value
get_transition_duration(s, el) ==
    IF s.TRANSITION_DURATION # -1
    THEN [s |-> s, val |-> s.TRANSITION_DURATION]
    ELSE LET css_value == s.style[OptionsOf(el.opt).animation]
         IN IF css_value.ok
            THEN IF Len(css_value.val) = 0
                 THEN [s |-> [s EXCEPT !.panic = TRUE], val |-> 0]
                 ELSE LET result == ParseF32(SubSeq(css_value.val, 1,
                                                    Len(css_value.val) - 1))
                      IN IF result = None
                         THEN [s |-> [s EXCEPT !.panic = TRUE], val |-> 0]
                         ELSE [s |-> [s EXCEPT !.TRANSITION_DURATION = result[1]],
                               val |-> result[1]]
            ELSE [s |-> s, val |-> 0]

\* faulty variant of close_dispatch: close(None) reports canceled(Close) to
\* the stored callback instead of staying silent
close_dispatch_default_result(s, result) ==
    IF s.THEN_CALLBACK # None
    THEN LET s0 == call_then(s, s.THEN_CALLBACK[1],
                             IF result # None THEN result[1] ELSE canceled("Close"),
                             "stored")
         IN [s0 EXCEPT !.THEN_CALLBACK = None, !.AUTO_CLOSE = TRUE]
    ELSE s

\* faulty variant of close_dispatch: close(None) leaves the two slots as they are
close_dispatch_keeps_slots(s, result) ==
    IF s.THEN_CALLBACK # None /\ result # None
    THEN LET s0 == call_then(s, s.THEN_CALLBACK[1], result[1], "stored")
         IN [s0 EXCEPT !.THEN_CALLBACK = None, !.AUTO_CLOSE = TRUE]
    ELSE s

\* Swal::close, first part: the stored then callback and the two slots
close_dispatch(s, result) ==
    IF s.THEN_CALLBACK # None
    THEN LET s0 == IF result # None
                   THEN call_then(s, s.THEN_CALLBACK[1], result[1], "stored")
                   ELSE s
         IN [s0 EXCEPT !.THEN_CALLBACK = None, !.AUTO_CLOSE = TRUE]
    ELSE s

\* faulty variant of close_hide: reports success whether or not a node is mounted
close_hide_reports_true(s) ==
    LET swal == get_swal(s)
    IN IF swal # None
       THEN LET s2 == Log([s EXCEPT !.dom[1].hidden = TRUE], "hide", swal[1].id, None)
                d == get_transition_duration(s2, swal[1])
            IN IF d.s.panic
               THEN d.s
               ELSE [set_timeout(d.s, "detach", swal[1].id, "", d.val)
                        EXCEPT !.ret = Some(TRUE)]
       ELSE [s EXCEPT !.ret = Some(TRUE)]

\* Swal::close, second part: hide the mounted node and schedule its removal
close_hide(s) ==
    LET swal == get_swal(s)
    IN IF swal # None
       THEN LET s2 == Log([s EXCEPT !.dom[1].hidden = TRUE], "hide", swal[1].id, None)
                d == get_transition_duration(s2, swal[1])
            IN IF d.s.panic
               THEN d.s
               ELSE [set_timeout(d.s, "detach", swal[1].id, "", d.val)
                        EXCEPT !.ret = Some(TRUE)]
       ELSE [s EXCEPT !.ret = Some(FALSE)]

\* Swal::close(result)
close(s, result) == close_hide(close_dispatch(s, result))

\* faulty variant of open: the node is appended with aria-hidden="false"
open_mounts_visible(s, id, opt) ==
    LET s1 == [s EXCEPT !.THEN_CALLBACK = Some(id),
                        !.AUTO_CLOSE = OptionsOf(opt).auto_close]
        s2 == [s1 EXCEPT !.dom = Append(@, [id |-> id, opt |-> opt, hidden |-> FALSE])]
        s3 == Log(s2, "mount", id, None)
    IN set_timeout(s3, "show", id, "", 1)

\* SwalComponent(opt) followed by append_child and the mark-visible timer
open(s, id, opt) ==
    LET s1 == [s EXCEPT !.THEN_CALLBACK = Some(id),
                        !.AUTO_CLOSE = OptionsOf(opt).auto_close]
        s2 == [s1 EXCEPT !.dom = Append(@, [id |-> id, opt |-> opt, hidden |-> TRUE])]
        s3 == Log(s2, "mount", id, None)
    IN set_timeout(s3, "show", id, "", 1)

\* faulty variant of fire: the open is always deferred through set_timeout
fire_always_deferred(s, opt) ==
    LET id == s.nextId
        s1 == [s EXCEPT !.nextId = @ + 1]
        swal == get_swal(s1)
        d == IF swal # None
             THEN get_transition_duration(s1, swal[1])
             ELSE [s |-> s1, val |-> 0]
    IN IF d.s.panic
       THEN d.s
       ELSE Log(set_timeout(d.s, "open", id, opt, 1 + d.val), "defer", id, None)

\* faulty variant of fire: the open is deferred by the transition duration
\* alone, without the fixed 0.01 s
fire_without_fixed_delay(s, opt) ==
    LET id == s.nextId
        s1 == [s EXCEPT !.nextId = @ + 1]
        swal == get_swal(s1)
    IN IF swal # None
       THEN LET d == get_transition_duration(s1, swal[1])
            IN IF d.s.panic
               THEN d.s
               ELSE Log(set_timeout(d.s, "open", id, opt, d.val),
                        "defer", id, None)
       ELSE open(s1, id, opt)

\* faulty variant of fire: a fire made while a popup is mounted is dropped
fire_drops_when_open(s, opt) ==
    LET id == s.nextId
        s1 == [s EXCEPT !.nextId = @ + 1]
        swal == get_swal(s1)
    IN IF swal # None
       THEN s1
       ELSE open(s1, id, opt)

\* Swal::fire(opt); the options value gets the identity s.nextId
fire(s, opt) ==
    LET id == s.nextId
        s1 == [s EXCEPT !.nextId = @ + 1]
        swal == get_swal(s1)
    IN IF swal # None
       THEN LET d == get_transition_duration(s1, swal[1])
            IN IF d.s.panic
               THEN d.s
               ELSE Log(set_timeout(d.s, "open", id, opt, 1 + d.val),
                        "defer", id, None)
       ELSE open(s1, id, opt)

(***************************************************************************)
(* The hooks of an options value.                                          *)
(***************************************************************************)
pre_confirm(s, n) ==
    LET s1 == Log(s, "pre_confirm", n.id, None)
    IN IF OptionsOf(n.opt).pre_confirm = "close_confirmed"
       THEN close(s1, Some(confirmed))
       ELSE s1

pre_deny(s, n) ==
    LET s1 == Log(s, "pre_deny", n.id, None)
    IN IF OptionsOf(n.opt).pre_deny = "fire_inner"
       THEN fire(s1, InnerOptions)
       ELSE s1

(***************************************************************************)
(* The listeners SwalComponent attaches to the node n it builds.           *)
(***************************************************************************)
\* faulty variant of on_confirm: the popup is closed before then is called
on_confirm_close_first(s, n) ==
    LET s1 == pre_confirm(s, n)
    IN IF s1.panic \/ ~OptionsOf(n.opt).auto_close
       THEN s1
       ELSE LET s2 == close(s1, None)
            IN IF s2.panic THEN s2 ELSE call_then(s2, n.id, confirmed, "opt")

\* faulty variant of on_confirm: pre_confirm runs only when auto_close is set
on_confirm_hook_when_auto_close(s, n) ==
    IF ~OptionsOf(n.opt).auto_close
    THEN s
    ELSE LET s1 == pre_confirm(s, n)
         IN IF s1.panic
            THEN s1
            ELSE close(call_then(s1, n.id, confirmed, "opt"), None)

on_confirm(s, n) ==
    LET s1 == pre_confirm(s, n)
    IN IF s1.panic \/ ~OptionsOf(n.opt).auto_close
       THEN s1
       ELSE close(call_then(s1, n.id, confirmed, "opt"), None)

\* faulty variant of on_deny: then is called whatever auto_close is
on_deny_always_then(s, n) ==
    LET s1 == pre_deny(s, n)
    IN IF s1.panic
       THEN s1
       ELSE LET s2 == call_then(s1, n.id, denied, "opt")
            IN IF OptionsOf(n.opt).auto_close THEN close(s2, None) ELSE s2

\* faulty variant of on_deny: the popup is closed whatever auto_close is
on_deny_always_close(s, n) ==
    LET s1 == pre_deny(s, n)
    IN IF s1.panic
       THEN s1
       ELSE IF OptionsOf(n.opt).auto_close
            THEN close(call_then(s1, n.id, denied, "opt"), None)
            ELSE close(s1, None)

on_deny(s, n) ==
    LET s1 == pre_deny(s, n)
    IN IF s1.panic \/ ~OptionsOf(n.opt).auto_close
       THEN s1
       ELSE close(call_then(s1, n.id, denied, "opt"), None)

on_cancel(s, n) ==
    LET s1 == call_then(s, n.id, canceled("Cancel"), "opt")
    IN IF OptionsOf(n.opt).auto_close THEN close(s1, None) ELSE s1

\* faulty variant of on_backdrop_clicked: the reason reported is Close
on_backdrop_reason_close(s, inside) ==
    IF ~inside /\ s.AUTO_CLOSE
    THEN close(s, Some(canceled("Close")))
    ELSE s

\* faulty variant of on_backdrop_clicked: AUTO_CLOSE is not consulted
on_backdrop_ungated(s, inside) ==
    IF ~inside
    THEN close(s, Some(canceled("Backdrop")))
    ELSE s

\* inside: the click target is contained in the swal-container
on_backdrop_clicked(s, inside) ==
    IF ~inside /\ s.AUTO_CLOSE
    THEN close(s, Some(canceled("Backdrop")))
    ELSE s

\* faulty variant of on_keydown: Escape is reported with the reason Close
on_keydown_reason_close(s, code) ==
    IF is_swal_open(s) /\ code = "Escape" /\ s.AUTO_CLOSE
    THEN close(s, Some(canceled("Close")))
    ELSE s

\* the keydown listener installed by init_escape_key_handler
on_keydown(s, code) ==
    IF is_swal_open(s) /\ code = "Escape" /\ s.AUTO_CLOSE
    THEN close(s, Some(canceled("Esc")))
    ELSE s

(***************************************************************************)
(* The set_timeout closures.                                               *)
(***************************************************************************)
\* open: get_swal().unwrap().set_attribute("aria-hidden", "false")
show_closure(s) ==
    LET swal == get_swal(s)
    IN IF swal = None
       THEN [s EXCEPT !.panic = TRUE]
       ELSE Log([s EXCEPT !.dom[1].hidden = FALSE], "show", swal[1].id, None)

\* faulty variant of detach_closure: the node found is left in the document
detach_closure_keeps_node(s) ==
    LET swal == get_swal(s)
    IN IF swal = None
       THEN s
       ELSE Log(s, "remove", swal[1].id, None)

\* faulty variant of detach_closure: get_swal().unwrap().remove()
detach_closure_unwraps(s) ==
    LET swal == get_swal(s)
    IN IF swal = None
       THEN [s EXCEPT !.panic = TRUE]
       ELSE Log([s EXCEPT !.dom = Tail(@)], "remove", swal[1].id, None)

\* close: if let Some(swal) = get_swal() { swal.remove() }
detach_closure(s) ==
    LET swal == get_swal(s)
    IN IF swal = None
       THEN s
       ELSE Log([s EXCEPT !.dom = Tail(@)], "remove", swal[1].id, None)

run_timer(s, t) ==
    CASE t.kind = "open" -> open(s, t.id, t.opt)
      [] t.kind = "show" -> show_closure(s)
      [] t.kind = "detach" -> detach_closure(s)

(***************************************************************************)
(* Event loop.                                                             *)
(***************************************************************************)
\* what the state was when the handler started
Pre == [dom |-> dom, then |-> THEN_CALLBACK, auto |-> AUTO_CLOSE,
        timers |-> timers, delivered |-> delivered]

Last(op, id, opt, arg, s) ==
    [op |-> op, id |-> id, opt |-> opt, arg |-> arg, ret |-> s.ret,
     panic |-> s.panic, pre |-> Pre]

\* the alerts whose then callback can still be invoked: through the listeners
\* of a mounted node, through THEN_CALLBACK, or once a deferred open has run
Live(s) ==
    {s.dom[i].id : i \in 1..Len(s.dom)}
    \cup {s.THEN_CALLBACK[i] : i \in 1..Len(s.THEN_CALLBACK)}
    \cup {s.timers[i].id : i \in {k \in 1..Len(s.timers) : s.timers[k].kind = "open"}}

\* the handler ends in state s
Apply(s) ==
    /\ Len(s.timers) <= MaxTimers
    /\ dom' = s.dom
    /\ THEN_CALLBACK' = s.THEN_CALLBACK
    /\ AUTO_CLOSE' = s.AUTO_CLOSE
    /\ TRANSITION_DURATION' = s.TRANSITION_DURATION
    /\ timers' = s.timers
    /\ nextId' = s.nextId
    /\ delivered' = s.delivered \cap Live(s)
    /\ trace' = s.trace
    /\ UNCHANGED style

\* no handler has run since the event named op
Idle(op) ==
    [op |-> op, id |-> 0, opt |-> "", arg |-> None, ret |-> None, panic |-> FALSE,
     pre |-> [dom |-> <<>>, then |-> None, auto |-> TRUE, timers |-> <<>>,
              delivered |-> {}]]

Init ==
    /\ dom = <<>>
    /\ THEN_CALLBACK = None
    /\ AUTO_CLOSE = TRUE
    /\ TRANSITION_DURATION = -1
    /\ timers = <<>>
    /\ style \in {f \in [BOOLEAN -> WellFormedStyles] : f[FALSE] = StyleOk(<<"0", "s">>)}
    /\ nextId = 1
    /\ delivered = {}
    /\ trace = <<>>
    /\ last = Idle("init")

\* the number of fire calls a handler on node n may make
FiresOf(n) == IF OptionsOf(n.opt).pre_deny = "fire_inner" THEN 1 ELSE 0

\* the host page calls Swal::fire(opt)
Fire(opt) ==
    /\ nextId <= MaxFires
    /\ LET s == fire(Cur, opt)
       IN Apply(s) /\ last' = Last("fire", nextId, opt, None, s)

\* the host page calls Swal::close(result)
Close(result) ==
    /\ LET s == close(Cur, result)
       IN Apply(s) /\ last' = Last("close", 0, "", result, s)

ClickConfirm(i) ==
    /\ OptionsOf(dom[i].opt).show_confirm_button
    /\ LET s == on_confirm(Cur, dom[i])
       IN Apply(s) /\ last' = Last("confirm", dom[i].id, dom[i].opt, None, s)

ClickDeny(i) ==
    /\ OptionsOf(dom[i].opt).show_deny_button
    /\ nextId + FiresOf(dom[i]) <= MaxFires + 1
    /\ LET s == on_deny(Cur, dom[i])
       IN Apply(s) /\ last' = Last("deny", dom[i].id, dom[i].opt, None, s)

ClickCancel(i) ==
    /\ OptionsOf(dom[i].opt).show_cancel_button
    /\ LET s == on_cancel(Cur, dom[i])
       IN Apply(s) /\ last' = Last("cancel", dom[i].id, dom[i].opt, None, s)

\* a click on node i that is not on a button: on the backdrop or in the container
ClickBackdrop(i, inside) ==
    /\ LET s == on_backdrop_clicked(Cur, inside)
       IN Apply(s) /\ last' = Last(IF inside THEN "container" ELSE "backdrop",
                                   dom[i].id, dom[i].opt, None, s)

KeyDown(code) ==
    /\ LET s == on_keydown(Cur, code)
       IN Apply(s) /\ last' = Last("keydown", 0, code, None, s)

\* a timer may run once it is due and every timer registered before it with a
\* timeout not longer than its own has run
Due(k) ==
    /\ timers[k].rem = 0
    /\ \A j \in 1..(k - 1) : ~(timers[j].rem = 0 /\ timers[j].dur <= timers[k].dur)

Without(seq, k) == SubSeq(seq, 1, k - 1) \o SubSeq(seq, k + 1, Len(seq))

TimerFire(k) ==
    /\ Due(k)
    /\ LET s == run_timer([Cur EXCEPT !.timers = Without(@, k)], timers[k])
       IN /\ Apply(s)
          /\ last' = Last("timer_" \o timers[k].kind, timers[k].id, timers[k].opt,
                          None, s)

\* one unit of time passes; due timers run first
Tick ==
    /\ timers # <<>>
    /\ \A k \in 1..Len(timers) : timers[k].rem > 0
    /\ timers' = [k \in 1..Len(timers) |-> [timers[k] EXCEPT !.rem = @ - 1]]
    /\ last' = Idle("tick")
    /\ trace' = <<>>
    /\ UNCHANGED <<dom, THEN_CALLBACK, AUTO_CLOSE, TRANSITION_DURATION, style,
                   nextId, delivered>>

CloseArgs == {None, Some(canceled("Close"))}

KeyCodes == {"Escape", "Tab"}

Next ==
    \/ \E opt \in HostOptions : Fire(opt)
    \/ \E result \in CloseArgs : Close(result)
    \/ \E i \in 1..Len(dom) : ClickConfirm(i)
    \/ \E i \in 1..Len(dom) : ClickDeny(i)
    \/ \E i \in 1..Len(dom) : ClickCancel(i)
    \/ \E i \in 1..Len(dom), inside \in BOOLEAN : ClickBackdrop(i, inside)
    \/ \E code \in KeyCodes : KeyDown(code)
    \/ \E k \in 1..Len(timers) : TimerFire(k)
    \/ Tick

Spec == Init /\ [][Next]_vars

(***************************************************************************)
(* Properties.  They read the record of the handler that ran last: last    *)
(* (which handler, its inputs, its return value, the state it started in)  *)
(* and trace (what it did, in order).                                      *)
(***************************************************************************)
IsThen(e) == e.ev = "then"
IsHide(e) == e.ev = "hide"

\* the then invocations of the handler that ran last, in order
Thens == SelectSeq(trace, IsThen)

WasMounted == Len(last.pre.dom) > 0

C2_ThenAtMostOnce ==
    /\ \A i \in 1..Len(Thens) : Thens[i].id \notin last.pre.delivered
    /\ \A i, j \in 1..Len(Thens) : i # j => Thens[i].id # Thens[j].id

\* C3: at every moment at most one node with id "swal" is mounted.
C3_AtMostOnePopup == Len(dom) <= 1

\* C4 as stated: a close call that directly follows a close call (no fire,
\* no timer in between) returns false.
C4_SecondCloseFalse ==
    [][(last.op = "close" /\ last'.op = "close") => last'.ret = Some(FALSE)]_vars

\* C4 as amended: once an alert has been fired, a close call returns true
\* while a popup is still mounted (the closed popup stays mounted until its
\* detach timer runs) and false once none is mounted, until the next mount.
C4_CloseReportsMounted ==
    (last.op = "close" /\ nextId > 1) => last.ret = Some(WasMounted)

C4_Witness ==
    /\ last.op = "close"
    /\ nextId > 1
    /\ ~WasMounted
    /\ last.ret = Some(FALSE)

\* C5: a close call made while no popup is mounted returns false and changes
\* nothing (no callback runs, the two slots keep their values, no timer is
\* scheduled); a close call made while a popup is mounted returns true.
C5_CloseUnmountedNoChange ==
    last.op = "close" =>
        IF WasMounted
        THEN last.ret = Some(TRUE)
        ELSE /\ last.ret = Some(FALSE)
             /\ trace = <<>>
             /\ THEN_CALLBACK = last.pre.then
             /\ AUTO_CLOSE = last.pre.auto
             /\ timers = last.pre.timers

\* C6: is_swal_open() is false as long as no fire call has been made, and
\* true right after a fire call that found no popup mounted.
C6_OpenAfterFire ==
    /\ nextId = 1 => ~is_swal_open(Cur)
    /\ (last.op = "fire" /\ ~WasMounted) => is_swal_open(Cur)

C6_Witness ==
    /\ last.op = "fire"
    /\ ~WasMounted
    /\ is_swal_open(Cur)
    /\ dom[1].id = last.id

\* the nodes that were mounted and visible when the last handler started
VisibleBefore ==
    {last.pre.dom[i] : i \in {k \in 1..Len(last.pre.dom) : ~last.pre.dom[k].hidden}}

\* the last handler hid node n or invoked the then callback of its alert
ClosedByLast(n) ==
    \E i \in 1..Len(trace) : trace[i].ev \in {"hide", "then"} /\ trace[i].id = n.id

WasEscape == last.op = "keydown" /\ last.opt = "Escape"

\* C7: an Escape keydown closes, with a dismissed result of reason Esc, every
\* visible popup whose alert was fired with auto_close = true, never closes a
\* visible popup whose alert was fired with auto_close = false, and does
\* nothing when no popup is mounted.
C7_EscapeFollowsAutoClose ==
    WasEscape =>
        /\ \A n \in VisibleBefore :
              IF OptionsOf(n.opt).auto_close
              THEN /\ \E i \in 1..Len(trace) : trace[i].ev = "hide" /\ trace[i].id = n.id
                   /\ Thens = <<Event("then", n.id, Some(canceled("Esc")), "stored")>>
              ELSE ~ClosedByLast(n)
        /\ ~WasMounted => (trace = <<>> /\ timers = last.pre.timers)

WasClick == last.op \in {"confirm", "deny", "cancel"}

\* the result the button of the last click stands for
ButtonResult ==
    CASE last.op = "confirm" -> confirmed
      [] last.op = "deny" -> denied
      [] last.op = "cancel" -> canceled("Cancel")

\* the hook the button of the last click runs first
ButtonHook ==
    CASE last.op = "confirm" -> "pre_confirm"
      [] last.op = "deny" -> "pre_deny"
      [] last.op = "cancel" -> ""

\* position in trace of the then call the click listener makes through opt.then
OwnThen == {i \in 1..Len(trace) :
               trace[i] = Event("then", last.id, Some(ButtonResult), "opt")}

\* C8 as stated: every click on confirm, deny or cancel delivers the button's
\* result to the then callback of the clicked alert, whatever auto_close is.
C8_ClickAlwaysDelivers ==
    WasClick =>
        \E i \in 1..Len(trace) :
            /\ trace[i].ev = "then"
            /\ trace[i].id = last.id
            /\ trace[i].res = Some(ButtonResult)

\* C8 as amended: a cancel click passes canceled(Cancel) to opt.then whatever
\* auto_close is; a confirm or deny click runs its hook first and passes
\* confirmed() / denied() to opt.then exactly when auto_close is true; and
\* the listener closes the popup after that exactly when auto_close is true
\* (with auto_close = false a deny or cancel click hides nothing).
C8_ClickDeliversWhenAutoClose ==
    WasClick =>
        LET auto == OptionsOf(last.opt).auto_close
        IN /\ Cardinality(OwnThen) = (IF auto \/ last.op = "cancel" THEN 1 ELSE 0)
           /\ last.op # "cancel" => trace[1] = Event(ButtonHook, last.id, None, "")
           /\ auto => \A i \in OwnThen : \E j \in (i + 1)..Len(trace) : IsHide(trace[j])
           /\ (~auto /\ last.op # "confirm") => \A j \in 1..Len(trace) : ~IsHide(trace[j])

C8_Witness ==
    /\ last.op = "deny"
    /\ ~OptionsOf(last.opt).auto_close
    /\ trace = <<Event("pre_deny", last.id, None, "")>>

\* C9: on a confirm (deny) click pre_confirm (pre_deny) runs before any then
\* call, and every then call comes before the popup is marked hidden; on a
\* backdrop click or an Escape keydown every then call comes before the
\* popup is marked hidden.
C9_HookThenHide ==
    (last.op \in {"confirm", "deny", "backdrop"} \/ WasEscape) =>
        \A i \in 1..Len(trace) :
            IsThen(trace[i]) =>
                /\ last.op \in {"confirm", "deny"} =>
                       \E j \in 1..(i - 1) : trace[j].ev = ButtonHook
                /\ \A j \in 1..(i - 1) : ~IsHide(trace[j])
                /\ \E j \in (i + 1)..Len(trace) : IsHide(trace[j])

C9_Witness ==
    /\ last.op = "deny"
    /\ OptionsOf(last.opt).auto_close
    /\ Len(trace) >= 3
    /\ trace[1].ev = "pre_deny"
    /\ IsThen(trace[Len(trace) - 1])
    /\ IsHide(trace[Len(trace)])

\* the result a closing path stands for
PathResult ==
    CASE WasClick -> ButtonResult
      [] last.op = "backdrop" -> canceled("Backdrop")
      [] WasEscape -> canceled("Esc")

\* C10: each closing path delivers its own result: with auto_close true a
\* click on confirm, deny, cancel passes confirmed(), denied(),
\* canceled(Cancel) to then; a backdrop click and an Escape keydown made
\* while a callback is stored and the stored flag is true pass
\* canceled(Backdrop), canceled(Esc); no path passes any other result.
C10_PathResult ==
    (WasClick \/ last.op = "backdrop" \/ WasEscape) =>
        /\ \A i \in 1..Len(Thens) : Thens[i].res = Some(PathResult)
        /\ (WasClick /\ OptionsOf(last.opt).auto_close) => Len(Thens) >= 1
        /\ (~WasClick /\ last.pre.auto /\ last.pre.then # None /\ WasMounted)
               => Len(Thens) = 1

C10_Witness ==
    /\ last.op = "backdrop"
    /\ Thens = <<Event("then", last.id, Some(canceled("Backdrop")), "stored")>>

(***************************************************************************)
(* Scheduling.  The browser runs every timer that is due, and time passes  *)
(* however often handlers run in between: a handler that schedules a       *)
(* zero-delay timer holds time back only until that timer has run.         *)
(***************************************************************************)
Fairness ==
    /\ SF_vars(Tick)
    /\ \A k \in 1..(MaxTimers + 1) : WF_vars(k <= Len(timers) /\ TimerFire(k))

LiveSpec == Init /\ [][Next]_vars /\ Fairness

\* a node built for alert a is mounted
Mounted(a) == \E i \in 1..Len(dom) : dom[i].id = a

\* the handler that ran last marked the node of alert a hidden (its close
\* call found that node and returned true)
HidByLast(a) == \E i \in 1..Len(trace) : trace[i] = Event("hide", a, None, "")

\* a confirm click on the popup on screen, fired with auto_close = true and
\* the default (empty) pre_confirm
ConfirmCase ==
    /\ last.op = "confirm"
    /\ OptionsOf(last.opt).auto_close
    /\ OptionsOf(last.opt).pre_confirm = "noop"
    /\ Len(last.pre.dom) > 0
    /\ last.pre.dom[1].id = last.id

\* the node first in document order is the node of alert a and is hidden
HeadHidden(a) == Len(dom) > 0 /\ dom[1].id = a /\ dom[1].hidden

PendingOpens == {k \in 1..Len(timers) : timers[k].kind = "open"}

\* the handler that ran last made a fire call (fire mounts or defers; a mount
\* made by a timer is the deferred open of an earlier fire)
FireByLast ==
    \E i \in 1..Len(trace) :
        \/ trace[i].ev = "defer"
        \/ trace[i].ev = "mount" /\ last.op # "timer_open"

\* C11: a confirm click on the popup of an alert fired with auto_close = true
\* calls then with confirmed() and marks the popup hidden; every close that
\* found a popup (returned true) is eventually followed by the removal of
\* that popup; and after the click on the only popup, with no fire pending,
\* is_swal_open() eventually becomes false unless a further fire is made.
C11_ConfirmDetaches ==
    /\ [](ConfirmCase =>
            /\ Thens = <<Event("then", last.id, Some(confirmed), "opt")>>
            /\ HidByLast(last.id)
            /\ HeadHidden(last.id))
    /\ \A a \in Alerts : (Mounted(a) /\ HidByLast(a)) ~> ~Mounted(a)
    /\ (ConfirmCase /\ Len(dom) = 1 /\ PendingOpens = {})
          ~> (~is_swal_open(Cur) \/ FireByLast)

C11_Witness ==
    /\ ConfirmCase
    /\ last.opt = "basic"
    /\ HidByLast(last.id)
    /\ \E k \in 1..Len(timers) : timers[k].kind = "detach" /\ timers[k].id = last.id

\* the handler that ran last called Swal::close: the host did, or a listener
\* whose gate was open, or the pre_confirm hook of the clicked alert
CloseCalled ==
    \/ last.op = "close"
    \/ WasClick /\ OptionsOf(last.opt).auto_close
    \/ last.op = "confirm" /\ OptionsOf(last.opt).pre_confirm = "close_confirmed"
    \/ last.op = "backdrop" /\ last.pre.auto
    \/ WasEscape /\ last.pre.auto /\ WasMounted

\* C12: after a close call made while a then callback is stored, with or
\* without a result, the stored callback is None and the stored auto_close
\* flag is true.
C12_CloseClearsSlots ==
    (CloseCalled /\ last.pre.then # None) =>
        (THEN_CALLBACK = None /\ AUTO_CLOSE = TRUE)

C12_Witness ==
    /\ last.op = "close"
    /\ last.arg = None
    /\ last.pre.then # None
    /\ ~last.pre.auto
    /\ THEN_CALLBACK = None
    /\ AUTO_CLOSE = TRUE

(***************************************************************************)
(* A host page that fires one alert more, while the open of an earlier     *)
(* fire is still waiting for its timer.                                    *)
(***************************************************************************)
FirePending(opt) ==
    /\ nextId = MaxFires + 1
    /\ PendingOpens # {}
    /\ LET s == fire(Cur, opt)
       IN Apply(s) /\ last' = Last("fire", nextId, opt, None, s)

NextReopen ==
    \/ \E opt \in HostOptions : Fire(opt)
    \/ \E opt \in HostOptions : FirePending(opt)
    \/ \E result \in CloseArgs : Close(result)
    \/ \E k \in 1..Len(timers) : TimerFire(k)
    \/ Tick

ReopenSpec == Init /\ [][NextReopen]_vars

\* the handler that ran last mounted the popup of alert last.id
MountedByLast ==
    /\ last.op \in {"fire", "timer_open"}
    /\ \E i \in 1..Len(trace) : trace[i] = Event("mount", last.id, None, "")

\* C13: each open stores the then callback and the auto_close flag of the
\* alert it mounts; and once a fire has been made while a reopen was pending
\* (under ReopenSpec: the fire that takes nextId past MaxFires + 1) and every
\* timer has run, at most one popup is mounted and the stored callback and
\* flag are those of that popup.
C13_LastWriterWins ==
    /\ MountedByLast =>
          /\ THEN_CALLBACK = Some(last.id)
          /\ AUTO_CLOSE = OptionsOf(last.opt).auto_close
    /\ (nextId = MaxFires + 2 /\ timers = <<>>) =>
          /\ Len(dom) <= 1
          /\ (Len(dom) = 1 /\ THEN_CALLBACK # None) =>
                /\ THEN_CALLBACK = Some(dom[1].id)
                /\ AUTO_CLOSE = OptionsOf(dom[1].opt).auto_close

\* the alerts whose fire call, made by the handler that ran last, found a
\* popup mounted
DeferredByLast == {trace[i].id : i \in {k \in 1..Len(trace) : trace[k].ev = "defer"}}

\* the timers of alert a's deferred open
OpenTimers(seq, a) == {k \in 1..Len(seq) : seq[k].kind = "open" /\ seq[k].id = a}

\* C14: a fire call that finds a popup mounted does not mount its alert: it
\* schedules one open after the fixed delay (1 unit) plus the transition
\* duration; and when that open runs, no detach timer scheduled before the
\* fire call (by a close at or before it) is still pending: it has run.
C14_ReopenAfterDetach ==
    /\ (last.op = "fire" /\ WasMounted) =>
          (trace = <<Event("defer", last.id, None, "")>> /\ dom = last.pre.dom)
    /\ \A a \in DeferredByLast :
          /\ ~Mounted(a)
          /\ \A i \in 1..Len(trace) : ~(trace[i].ev = "mount" /\ trace[i].id = a)
          /\ Cardinality(OpenTimers(timers, a)) = 1
          /\ \A k \in OpenTimers(timers, a) :
                timers[k].dur = 1 + TRANSITION_DURATION /\ timers[k].rem = timers[k].dur
    /\ last.op = "timer_open" =>
          \A k \in OpenTimers(last.pre.timers, last.id) :
              \A j \in 1..(k - 1) : last.pre.timers[j].kind # "detach"

C14_Witness ==
    /\ last.op = "timer_open"
    /\ last.pre.dom = <<>>
    /\ Len(dom) = 1
    /\ dom[1].id = last.id
    /\ TRANSITION_DURATION = 2

(***************************************************************************)
(* A host page that fires an alert with auto_close = false and then the    *)
(* alert of the demonstration application whose pre_deny fires the inner   *)
(* alert, and a user who presses deny and cancel and uses the keyboard.    *)
(* The success alert is the only outer alert of a run: the inner alert on  *)
(* screen was fired by its pre_deny.                                       *)
(***************************************************************************)
FireNested == IF nextId = 1 THEN Fire("locked") ELSE Fire("success")

ClickDenyNested(i) ==
    /\ OptionsOf(dom[i].opt).show_deny_button
    /\ nextId + FiresOf(dom[i]) <= MaxFires + 2
    /\ LET s == on_deny(Cur, dom[i])
       IN Apply(s) /\ last' = Last("deny", dom[i].id, dom[i].opt, None, s)

NextNested ==
    \/ FireNested
    \/ \E i \in 1..Len(dom) : ClickDenyNested(i)
    \/ \E i \in 1..Len(dom) : ClickCancel(i)
    \/ \E code \in KeyCodes : KeyDown(code)
    \/ \E k \in 1..Len(timers) : TimerFire(k)
    \/ Tick

NestedSpec == Init /\ [][NextNested]_vars

\* a click on a button of an outer alert: auto_close = true, pre_deny fires
\* the inner alert
OuterClick ==
    /\ WasClick
    /\ OptionsOf(last.opt).auto_close
    /\ OptionsOf(last.opt).pre_deny = "fire_inner"

\* the inner alerts that were mounted, with their then callback stored, when
\* the handler that ran last started
StoredInner ==
    {last.pre.dom[i].id : i \in {k \in 1..Len(last.pre.dom) :
                                    /\ last.pre.dom[k].opt = InnerOptions
                                    /\ last.pre.then = Some(last.pre.dom[k].id)}}

\* C15: on a deny click on an outer alert, pre_deny fires the inner alert,
\* whose open is deferred, and the outer then runs with denied() while no
\* then of the inner alert has run; the open of an inner alert stores its
\* then callback; and the close made by a click on an outer alert neither
\* invokes nor clears the stored callback of a mounted inner alert.
C15_NestedAlert ==
    /\ (OuterClick /\ last.op = "deny") =>
          /\ Len(trace) >= 3
          /\ trace[1] = Event("pre_deny", last.id, None, "")
          /\ trace[2].ev = "defer"
          /\ trace[3] = Event("then", last.id, Some(denied), "opt")
          /\ \A i \in 1..Len(trace) : IsThen(trace[i]) => trace[i].id # trace[2].id
    /\ (MountedByLast /\ last.opt = InnerOptions) => THEN_CALLBACK = Some(last.id)
    /\ OuterClick =>
          \A b \in StoredInner \ {last.id} :
              /\ THEN_CALLBACK = Some(b)
              /\ \A i \in 1..Len(trace) : IsThen(trace[i]) => trace[i].id # b

\* a deny click on an alert fired with auto_close = false whose pre_deny
\* calls neither close nor fire
DenyKeptOpen ==
    /\ last.op = "deny"
    /\ ~OptionsOf(last.opt).auto_close
    /\ OptionsOf(last.opt).pre_deny = "noop"

\* C16: with auto_close = false a press of the deny button runs pre_deny
\* once and nothing else: every node stays mounted with its visibility, the
\* stored then callback and auto_close flag keep their values, no then runs
\* and no timer is scheduled.
C16_DenyKeepsOpen ==
    DenyKeptOpen =>
        /\ trace = <<Event("pre_deny", last.id, None, "")>>
        /\ dom = last.pre.dom
        /\ THEN_CALLBACK = last.pre.then
        /\ AUTO_CLOSE = last.pre.auto
        /\ timers = last.pre.timers
        /\ delivered = last.pre.delivered

C16_Witness ==
    /\ DenyKeptOpen
    /\ Len(dom) = 1
    /\ dom[1].id = last.id
    /\ ~dom[1].hidden
    /\ THEN_CALLBACK = Some(last.id)
    /\ ~AUTO_CLOSE

(***************************************************************************)
(* The constructors of SwalResult and SwalOptions, called on their own:    *)
(* last records the constructor called, its arguments and the value built. *)
(***************************************************************************)
PureInit ==
    /\ dom = <<>>
    /\ THEN_CALLBACK = None
    /\ AUTO_CLOSE = TRUE
    /\ TRANSITION_DURATION = -1
    /\ timers = <<>>
    /\ style = [b \in BOOLEAN |-> StyleOk(<<"0", "s">>)]
    /\ nextId = 1
    /\ delivered = {}
    /\ trace = <<>>
    /\ last = Idle("init")

\* one call is made from the initial state and its value recorded
Returned(op, arg, ret) ==
    /\ last.op = "init"
    /\ last' = [Idle(op) EXCEPT !.arg = arg, !.ret = Some(ret)]
    /\ UNCHANGED <<dom, THEN_CALLBACK, AUTO_CLOSE, TRANSITION_DURATION, timers,
                   style, nextId, delivered, trace>>

CallConfirmed == Returned("confirmed", <<>>, confirmed)

CallDenied == Returned("denied", <<>>, denied)

CallCanceled(reason) == Returned("canceled", <<reason>>, canceled(reason))

CallDefault == Returned("default", <<>>, SwalOptionsDefault)

CallBasic(title) == Returned("basic", <<title>>, basic(title))

CallBasicIcon(title, icon) ==
    Returned("basic_icon", <<title, icon>>, basic_icon(title, icon))

CallCommon(title, text, icon) ==
    Returned("common", <<title, text, icon>>, common(title, text, icon))

(***************************************************************************)
(* The text predicates of SwalOptions and the button labels of the view.   *)
(***************************************************************************)
\* str.is_empty()
is_empty(str) == str = ""

has_title(opt) == ~is_empty(opt.title)

\* faulty variant of has_text: the test is not negated
has_text_when_empty(opt) == is_empty(opt.text)

has_text(opt) == ~is_empty(opt.text)

has_confirm_button_text(opt) == ~is_empty(opt.confirm_button_text)

has_deny_button_text(opt) == ~is_empty(opt.deny_button_text)

has_cancel_button_text(opt) == ~is_empty(opt.cancel_button_text)

\* <Show when=has_confirm_button_text fallback="Ok">{confirm_button_text}</Show>
confirm_label(opt) ==
    IF has_confirm_button_text(opt) THEN opt.confirm_button_text ELSE "Ok"

deny_label(opt) ==
    IF has_deny_button_text(opt) THEN opt.deny_button_text ELSE "Deny"

cancel_label(opt) ==
    IF has_cancel_button_text(opt) THEN opt.cancel_button_text ELSE "Cancel"

\* the options values whose five texts are drawn from Strs
TextOptions ==
    {[SwalOptionsDefault EXCEPT !.title = x[1], !.text = x[2],
                                !.confirm_button_text = x[3],
                                !.deny_button_text = x[4],
                                !.cancel_button_text = x[5]] :
        x \in Strs \X Strs \X Strs \X Strs \X Strs}

CallHasTexts(opt) ==
    Returned("has_texts", <<opt>>,
             [has_title |-> has_title(opt), has_text |-> has_text(opt),
              has_confirm_button_text |-> has_confirm_button_text(opt),
              has_deny_button_text |-> has_deny_button_text(opt),
              has_cancel_button_text |-> has_cancel_button_text(opt)])

\* the labels of the three buttons in the view built from opt
CallLabels(opt) ==
    Returned("labels", <<opt>>,
             [confirm |-> confirm_label(opt), deny |-> deny_label(opt),
              cancel |-> cancel_label(opt)])

(***************************************************************************)
(* Icons: is_defined of the pre-built icons and of a custom icon type that *)
(* keeps the trait's default method, and the icon block of the view.       *)
(***************************************************************************)
\* SwalIconLike::is_defined, the default method of the trait
SwalIconLike_is_defined(icon) == TRUE

\* faulty variant of is_defined: NONE is not told apart
is_defined_for_all(icon) == TRUE

\* impl SwalIconLike for SwalIcon: self != &SwalIcon::NONE
is_defined(icon) == icon # "NONE"

\* the values of a custom icon type, its Default value included
CustomIcons == {"custom", "custom_default"}

has_icon(opt) == opt.icon # "NONE"

\* <Show when=move || has_icon> around the icon block of the view
icon_block(opt) == has_icon(opt)

CallIsDefined(icon) == Returned("is_defined", <<icon>>, is_defined(icon))

CallIsDefinedCustom(icon) ==
    Returned("is_defined_custom", <<icon>>, SwalIconLike_is_defined(icon))

CallIconBlock(opt) == Returned("icon_block", <<opt>>, icon_block(opt))

(***************************************************************************)
(* Focus Manager, handleTab.  The focusable controls of the popup are      *)
(* numbered 0..n-1 in document order; focused is the number of the control *)
(* that has the focus, or -1 when the focus is on none of them.            *)
(***************************************************************************)
\* the largest number of focusable controls explored
MaxFocusables == 3

\* faulty variant of handle_tab: no wrap-around at either end
handle_tab_no_wrap(n, focused, shift) ==
    IF n = 0
    THEN focused
    ELSE LET index == IF focused \in 0..(n - 1) THEN focused ELSE 0
         IN IF shift
            THEN (IF index = 0 THEN 0 ELSE index - 1)
            ELSE (IF index = n - 1 THEN index ELSE index + 1)

\* the control focused after Tab (shift = FALSE) or Shift+Tab (shift = TRUE)
handle_tab(n, focused, shift) ==
    IF n = 0
    THEN focused
    ELSE LET index == IF focused \in 0..(n - 1) THEN focused ELSE 0
         IN IF shift
            THEN (index - 1 + n) % n
            ELSE (index + 1) % n

CallHandleTab(n, focused, shift) ==
    Returned("handle_tab", <<n, focused, shift>>, handle_tab(n, focused, shift))

NextPure ==
    \/ CallConfirmed
    \/ CallDenied
    \/ \E reason \in SwalDismissReason : CallCanceled(reason)
    \/ CallDefault
    \/ \E title \in Strs : CallBasic(title)
    \/ \E title \in Strs, icon \in SwalIcon : CallBasicIcon(title, icon)
    \/ \E title \in Strs, text \in Strs, icon \in SwalIcon :
          CallCommon(title, text, icon)
    \/ \E opt \in TextOptions : CallHasTexts(opt)
    \/ \E opt \in TextOptions : CallLabels(opt)
    \/ \E icon \in SwalIcon : CallIsDefined(icon)
    \/ \E icon \in CustomIcons : CallIsDefinedCustom(icon)
    \/ \E title \in Strs, icon \in SwalIcon : CallIconBlock(basic_icon(title, icon))
    \/ \E n \in 0..MaxFocusables, shift \in BOOLEAN :
          \E focused \in (-1)..(n - 1) : CallHandleTab(n, focused, shift)

PureSpec == PureInit /\ [][NextPure]_vars

\* the value the constructor called last has built
Built == last.ret[1]

\* C17: confirmed() is {is_confirmed: true, value: true, is_denied: false,
\* is_dismissed: false, dismiss: None}; denied() is {false, false, true,
\* false, None}; canceled(reason) is {false, false, false, true,
\* Some(reason)} for every reason.
C17_ResultFactories ==
    /\ last.op = "confirmed" =>
          /\ Built.is_confirmed /\ Built.value
          /\ ~Built.is_denied /\ ~Built.is_dismissed
          /\ Built.dismiss = None
          /\ DOMAIN Built = {"is_confirmed", "value", "is_denied", "is_dismissed",
                             "dismiss"}
    /\ last.op = "denied" =>
          /\ ~Built.is_confirmed /\ ~Built.value
          /\ Built.is_denied /\ ~Built.is_dismissed
          /\ Built.dismiss = None
    /\ last.op = "canceled" =>
          /\ ~Built.is_confirmed /\ ~Built.value
          /\ ~Built.is_denied /\ Built.is_dismissed
          /\ Built.dismiss = Some(last.arg[1])

C17_Witness ==
    /\ last.op = "canceled"
    /\ last.arg = <<"Esc">>
    /\ Built.dismiss = Some("Esc")

\* the number of the flags is_confirmed, is_denied, is_dismissed that r sets
FlagsSet(r) ==
    (IF r.is_confirmed THEN 1 ELSE 0) + (IF r.is_denied THEN 1 ELSE 0)
        + (IF r.is_dismissed THEN 1 ELSE 0)

\* C18: every result the controller builds and passes to a then callback
\* (on a click, a backdrop click or an Escape keydown; not the result the
\* host hands to close) sets exactly one of is_confirmed, is_denied,
\* is_dismissed, carries a dismiss reason exactly when is_dismissed, and its
\* reason is Backdrop, Cancel or Esc, never Close.
C18_InternalResults ==
    last.op # "close" =>
        \A i \in 1..Len(Thens) :
            LET r == Thens[i].res[1]
            IN /\ FlagsSet(r) = 1
               /\ (r.dismiss # None) <=> r.is_dismissed
               /\ r.dismiss # None => r.dismiss[1] \in {"Backdrop", "Cancel", "Esc"}

C18_Witness ==
    /\ WasEscape
    /\ Len(Thens) = 1
    /\ Thens[1].res[1].is_dismissed
    /\ Thens[1].res[1].dismiss = Some("Esc")

\* C19: default() has an empty title and text, three empty button texts,
\* the icon NONE, show_confirm_button true, show_deny_button and
\* show_cancel_button false, auto_close and animation true.
C19_DefaultOptions ==
    last.op = "default" =>
        /\ Built.title = "" /\ Built.text = ""
        /\ Built.confirm_button_text = ""
        /\ Built.deny_button_text = ""
        /\ Built.cancel_button_text = ""
        /\ Built.icon = "NONE"
        /\ Built.show_confirm_button
        /\ ~Built.show_deny_button
        /\ ~Built.show_cancel_button
        /\ Built.auto_close
        /\ Built.animation

C19_Witness ==
    /\ last.op = "default"
    /\ Built.icon = "NONE"
    /\ Built.show_confirm_button

\* options a and b agree on every field outside the set named
SameExcept(a, b, named) ==
    /\ DOMAIN a = DOMAIN b
    /\ \A f \in DOMAIN a \ named : a[f] = b[f]

\* C20: basic(title) sets title, basic_icon(title, icon) sets title and
\* icon, common(title, text, icon) sets title, text and icon, each to the
\* argument given, and every other field has its value in default().
C20_Constructors ==
    /\ last.op = "basic" =>
          /\ Built.title = last.arg[1]
          /\ SameExcept(Built, SwalOptionsDefault, {"title"})
    /\ last.op = "basic_icon" =>
          /\ Built.title = last.arg[1] /\ Built.icon = last.arg[2]
          /\ SameExcept(Built, SwalOptionsDefault, {"title", "icon"})
    /\ last.op = "common" =>
          /\ Built.title = last.arg[1] /\ Built.text = last.arg[2]
          /\ Built.icon = last.arg[3]
          /\ SameExcept(Built, SwalOptionsDefault, {"title", "text", "icon"})

C20_Witness ==
    /\ last.op = "common"
    /\ last.arg = <<"Hello", "World", "info">>
    /\ Built.title = "Hello" /\ Built.text = "World" /\ Built.icon = "info"
    /\ ~Built.show_deny_button

\* the options value the function called last was given
Given == last.arg[1]

\* C21: each has_* predicate is true exactly when its text field is not the
\* empty string, and the label of a button is its configured text when that
\* text is not empty and "Ok", "Deny", "Cancel" otherwise.
C21_TextsAndLabels ==
    /\ last.op = "has_texts" =>
          /\ Built.has_title <=> Given.title # ""
          /\ Built.has_text <=> Given.text # ""
          /\ Built.has_confirm_button_text <=> Given.confirm_button_text # ""
          /\ Built.has_deny_button_text <=> Given.deny_button_text # ""
          /\ Built.has_cancel_button_text <=> Given.cancel_button_text # ""
    /\ last.op = "labels" =>
          /\ Built.confirm = (IF Given.confirm_button_text = ""
                              THEN "Ok" ELSE Given.confirm_button_text)
          /\ Built.deny = (IF Given.deny_button_text = ""
                           THEN "Deny" ELSE Given.deny_button_text)
          /\ Built.cancel = (IF Given.cancel_button_text = ""
                             THEN "Cancel" ELSE Given.cancel_button_text)

C21_Witness ==
    /\ last.op = "labels"
    /\ Given.confirm_button_text = ""
    /\ Given.deny_button_text = "Hello"
    /\ Built.confirm = "Ok"
    /\ Built.deny = "Hello"

\* the pre-built icons that show something
ShownIcons == {"info", "error", "success", "warning", "question"}

\* C22: is_defined() is false for NONE, the default icon, and true for INFO,
\* ERROR, SUCCESS, WARNING and QUESTION; it is true for every value of a
\* custom icon type that keeps the trait's default method; and the view
\* holds the icon block exactly when the icon of the options is defined.
C22_IconDefined ==
    /\ last.op = "is_defined" => (Built <=> last.arg[1] \in ShownIcons)
    /\ last.op = "is_defined_custom" => Built
    /\ last.op = "icon_block" => (Built <=> Given.icon \in ShownIcons)

C22_Witness ==
    /\ last.op = "is_defined"
    /\ last.arg = <<"NONE">>
    /\ ~Built

(***************************************************************************)
(* A host page whose popups differ in their animation flag, under every    *)
(* stylesheet: the transition-duration of either kind of popup may be      *)
(* well-formed, unreadable, empty or a list of durations.                  *)
(***************************************************************************)
MalformedStyles == {StyleOk(<<>>), StyleOk(<<"2", "s", ",", "0", "s">>)}

AllStyles == WellFormedStyles \cup MalformedStyles \cup {StyleErr}

StyleOptions == {"basic", "plain"}

StyleInit ==
    /\ dom = <<>>
    /\ THEN_CALLBACK = None
    /\ AUTO_CLOSE = TRUE
    /\ TRANSITION_DURATION = -1
    /\ timers = <<>>
    /\ style \in [BOOLEAN -> AllStyles]
    /\ nextId = 1
    /\ delivered = {}
    /\ trace = <<>>
    /\ last = Idle("init")

NextStyle ==
    \/ \E opt \in StyleOptions : Fire(opt)
    \/ \E result \in CloseArgs : Close(result)
    \/ \E k \in 1..Len(timers) : TimerFire(k)
    \/ Tick

StyleSpec == StyleInit /\ [][NextStyle]_vars

\* the number a well-formed transition-duration value stands for
DurationOf(css_value) == IF css_value.val = <<"2", "s">> THEN 2 ELSE 0

\* the timers the step has registered (for a fire or a close call)
Registered == {timers'[k] : k \in (Len(timers) + 1)..Len(timers')}

\* C23: the memoized duration is -1 until a popup has been mounted; the call
\* that first reads a well-formed style stores the number it parsed from the
\* style of the popup passed; once a value is stored it never changes, and
\* every later fire or close uses it (detach after that duration, open after
\* 1 unit plus that duration) whatever the popup's own style is.
C23_DurationMemoized ==
    /\ [](nextId = 1 => TRANSITION_DURATION = -1)
    /\ [][/\ (TRANSITION_DURATION = -1 /\ TRANSITION_DURATION' # -1) =>
               /\ Len(dom) > 0
               /\ style[OptionsOf(dom[1].opt).animation] \in WellFormedStyles
               /\ TRANSITION_DURATION' =
                      DurationOf(style[OptionsOf(dom[1].opt).animation])
          /\ TRANSITION_DURATION # -1 =>
               /\ TRANSITION_DURATION' = TRANSITION_DURATION
               /\ last'.op \in {"fire", "close"} =>
                     \A r \in Registered :
                         /\ r.kind = "detach" => r.dur = TRANSITION_DURATION
                         /\ r.kind = "open" => r.dur = 1 + TRANSITION_DURATION]_vars

C23_Witness ==
    /\ TRANSITION_DURATION = 2
    /\ style[FALSE] = StyleOk(<<"0", "s">>)
    /\ last.op = "close"
    /\ Len(dom) = 1
    /\ dom[1].opt = "plain"
    /\ \E k \in 1..Len(timers) :
          timers[k].kind = "detach" /\ timers[k].id = dom[1].id /\ timers[k].dur = 2

\* C24: no fire or close call aborts, whatever the transition-duration style
\* is: when it cannot be read or is malformed, a close of a mounted popup
\* hides it and schedules the detach with duration 0.
C24_DurationFailsSoft ==
    last.op \in {"fire", "close"} =>
        /\ ~last.panic
        /\ (last.op = "close" /\ WasMounted /\ TRANSITION_DURATION = -1) =>
              /\ timers # <<>>
              /\ timers[Len(timers)].kind = "detach"
              /\ timers[Len(timers)].dur = 0

NothingDone ==
    /\ trace = <<>>
    /\ dom = last.pre.dom
    /\ THEN_CALLBACK = last.pre.then
    /\ AUTO_CLOSE = last.pre.auto
    /\ timers = last.pre.timers
    /\ ~last.panic

\* Swal::close(Some(canceled(Backdrop))) ran in the handler that ran last
BackdropClosed ==
    /\ HidByLast(last.pre.dom[1].id)
    /\ dom = [last.pre.dom EXCEPT ![1].hidden = TRUE]
    /\ THEN_CALLBACK = None
    /\ last.ret = Some(TRUE)
    /\ Len(Thens) = Len(last.pre.then)
    /\ \A i \in 1..Len(Thens) :
          /\ Thens[i].id = last.pre.then[1]
          /\ Thens[i].res = Some(canceled("Backdrop"))
          /\ Thens[i].via = "stored"

\* C26: a click whose target is outside the swal-container closes the popup
\* with canceled(Backdrop) when the stored AUTO_CLOSE flag is true and does
\* nothing when it is false; a click whose target is inside the container
\* does nothing.
C26_BackdropFollowsAutoClose ==
    /\ last.op = "backdrop" =>
          IF last.pre.auto THEN BackdropClosed ELSE NothingDone
    /\ last.op = "container" => NothingDone

C26_Witness ==
    /\ last.op = "backdrop"
    /\ last.pre.auto
    /\ BackdropClosed
    /\ Len(Thens) = 1

\* the alerts whose popup the handler that ran last appended to the document
MountedNow == {trace[i].id : i \in {k \in 1..Len(trace) : trace[k].ev = "mount"}}

\* the handler that ran last logged a set_attribute("aria-hidden", "false")
ShownNow == \E i \in 1..Len(trace) : trace[i].ev = "show"

\* the nodes of the document that are not hidden
VisibleIn(d) == {d[i] : i \in {k \in 1..Len(d) : ~d[k].hidden}}

\* C27: a popup is appended to the document hidden, and in the same step a
\* timer of 0.01 s is registered for marking it visible; a popup becomes
\* visible only in the step of such a timer, never in a step that mounts.
C27_MountedHidden ==
    /\ \A a \in MountedNow :
          /\ Len(dom) > 0
          /\ dom[Len(dom)] = [id |-> a, opt |-> last.opt, hidden |-> TRUE]
          /\ Len(timers) > 0
          /\ timers[Len(timers)] =
                [kind |-> "show", id |-> a, opt |-> "", dur |-> 1, rem |-> 1]
    /\ ShownNow => (last.op = "timer_show" /\ MountedNow = {})
    /\ last.op \notin {"tick", "timer_show"} => VisibleIn(dom) \subseteq VisibleIn(last.pre.dom)

C27_Witness ==
    /\ last.op = "timer_show"
    /\ ShownNow
    /\ Len(dom) = 1
    /\ dom[1].id = last.id
    /\ last.pre.dom[1].hidden
    /\ ~dom[1].hidden

\* the alerts whose popup the handler that ran last removed from the document
RemovedNow == {trace[i].id : i \in {k \in 1..Len(trace) : trace[k].ev = "remove"}}

\* C28: a detach timer registered by a close that hid the popup of alert A
\* removes no popup other than the popup of A.
C28_DetachOwnPopup ==
    last.op = "timer_detach" => RemovedNow \subseteq {last.id}

\* C29: a detach timer that runs while no popup is mounted removes nothing,
\* leaves the document, the two slots, the cached duration and the other
\* timers as they were, and does not panic.
C29_DetachIdempotent ==
    (last.op = "timer_detach" /\ ~WasMounted) =>
        /\ ~last.panic
        /\ trace = <<>>
        /\ dom = <<>>
        /\ THEN_CALLBACK = last.pre.then
        /\ AUTO_CLOSE = last.pre.auto
        /\ delivered = last.pre.delivered
        /\ \E k \in 1..Len(last.pre.timers) :
              /\ last.pre.timers[k].kind = "detach"
              /\ last.pre.timers[k].id = last.id
              /\ timers = Without(last.pre.timers, k)

C29_Witness ==
    /\ last.op = "timer_detach"
    /\ ~WasMounted
    /\ ~last.panic
    /\ dom = <<>>
    /\ trace = <<>>

\* C30: the mark-visible timer registered by open finds a popup mounted
\* whenever it runs, so its closure never panics.
C30_ShowFindsPopup ==
    last.op = "timer_show" => (WasMounted /\ ~last.panic)

\* the alerts whose popup a close has marked hidden and whose removal, which
\* that close scheduled, has not run yet
Closing == {timers[k].id : k \in {j \in 1..Len(timers) : timers[j].kind = "detach"}}

\* C31: a popup that close has marked hidden stays hidden until it is
\* removed from the document; the mark-visible timer of a popup closed
\* before the timer ran does not show it again.
C31_ClosedStaysHidden ==
    \A i \in 1..Len(dom) : dom[i].id \in Closing => dom[i].hidden

\* the alerts whose popup the handler that ran last marked visible
ShownAlerts == {trace[i].id : i \in {k \in 1..Len(trace) : trace[k].ev = "show"}}

\* C32: the mark-visible timer registered by the open of alert X changes
\* the visibility of the popup of X and of no other popup.
C32_ShowOwnPopup ==
    last.op = "timer_show" => ShownAlerts \subseteq {last.id}

\* the alerts whose popup the handler that ran last marked hidden
HiddenNow == {trace[i].id : i \in {k \in 1..Len(trace) : trace[k].ev = "hide"}}

\* the alerts whose then callback the handler that ran last took from
\* THEN_CALLBACK and invoked
StoredThens == {trace[i].id : i \in {k \in 1..Len(trace) :
                                       trace[k].ev = "then" /\ trace[k].via = "stored"}}

\* C33: when a close passes a result to the stored then callback and marks
\* a popup hidden, the callback is the one of the alert of that popup.
C33_ThenOfHiddenPopup ==
    \A a \in StoredThens : \A b \in HiddenNow : a = b

\* the handler that ran last appended the popup of alert a, built from the
\* options of the fire call (last.opt is the argument of a fire call and the
\* options captured by the closure of a deferred open)
MountedAs(a) ==
    /\ a \in MountedNow
    /\ dom[Len(dom)] = [id |-> a, opt |-> last.opt, hidden |-> TRUE]

\* C34: a fire call that finds nothing mounted mounts the popup of its
\* options in the call; one that finds a popup mounted registers a deferred
\* open carrying its options; and every deferred open eventually runs and
\* mounts the popup of those options, whatever happens in between.
C34_FireMounts ==
    /\ []((last.op = "fire" /\ ~WasMounted) => MountedAs(last.id))
    /\ []((last.op = "fire" /\ WasMounted) =>
            \E k \in OpenTimers(timers, last.id) : timers[k].opt = last.opt)
    /\ [](\A a \in DeferredByLast : OpenTimers(timers, a) # {})
    /\ [](last.op = "timer_open" =>
            /\ MountedAs(last.id)
            /\ \E k \in OpenTimers(last.pre.timers, last.id) :
                  last.pre.timers[k].opt = last.opt)
    /\ \A a \in Alerts : (OpenTimers(timers, a) # {}) ~> MountedAs(a)

C34_Witness ==
    /\ last.op = "timer_open"
    /\ MountedAs(last.id)
    /\ last.opt = "locked"
    /\ Len(dom) = 1

(***************************************************************************)
(* A host page whose then callbacks call Swal::close with the result they  *)
(* are given: then: |result| { Swal::close(Some(result)); }.               *)
(***************************************************************************)
\* the number of nested close calls the call stack has room for
MaxDepth == 2

RECURSIVE close_reentrant(_, _, _)

\* (then)(result) for such a callback: it logs, then calls close; with no
\* stack left the call aborts
then_calls_close(s, id, result, depth) ==
    LET s1 == call_then(s, id, result, "stored")
    IN IF depth = 0
       THEN [s1 EXCEPT !.panic = TRUE]
       ELSE close_reentrant(s1, Some(result), depth - 1)

\* Swal::close(result) on that page: the stored callback is invoked while
\* THEN_CALLBACK still holds it; the slots are written after it returned
close_reentrant(s, result, depth) ==
    LET s1 == IF s.THEN_CALLBACK # None
              THEN LET s0 == IF result # None
                             THEN then_calls_close(s, s.THEN_CALLBACK[1], result[1],
                                                   depth)
                             ELSE s
                   IN IF s0.panic
                      THEN s0
                      ELSE [s0 EXCEPT !.THEN_CALLBACK = None, !.AUTO_CLOSE = TRUE]
              ELSE s
    IN IF s1.panic THEN s1 ELSE close_hide(s1)

\* the host page calls Swal::close(result)
CloseReentrant(result) ==
    /\ LET s == close_reentrant(Cur, result, MaxDepth)
       IN Apply(s) /\ last' = Last("close", 0, "", result, s)

NextReenter ==
    \/ \E opt \in HostOptions : Fire(opt)
    \/ \E result \in CloseArgs : CloseReentrant(result)
    \/ \E k \in 1..Len(timers) : TimerFire(k)
    \/ Tick

ReenterSpec == Init /\ [][NextReenter]_vars

\* C35: a close call with a result, made while a then callback is stored
\* that itself calls close with a result, returns, and the callback has
\* then been invoked exactly once.
C35_NestedCloseOnce ==
    (last.op = "close" /\ last.arg # None /\ last.pre.then # None) =>
        /\ ~last.panic
        /\ Len(Thens) = 1

\* the positions in trace at which the hook named ev ran
HookRuns(ev) == {i \in 1..Len(trace) : trace[i].ev = ev}

\* C36: a confirm click runs pre_confirm of the clicked alert exactly once,
\* as the first thing the listener does, and does not run pre_deny; a deny
\* click does the same with pre_deny; both whatever auto_close is; a cancel
\* click runs neither hook.
C36_HooksRunOnce ==
    /\ last.op = "confirm" =>
          /\ HookRuns("pre_confirm") = {1}
          /\ trace[1].id = last.id
          /\ HookRuns("pre_deny") = {}
    /\ last.op = "deny" =>
          /\ HookRuns("pre_deny") = {1}
          /\ trace[1].id = last.id
          /\ HookRuns("pre_confirm") = {}
    /\ last.op = "cancel" =>
          HookRuns("pre_confirm") \cup HookRuns("pre_deny") = {}

C36_Witness ==
    /\ last.op = "confirm"
    /\ ~OptionsOf(last.opt).auto_close
    /\ HookRuns("pre_confirm") = {1}
    /\ Len(trace) > 1

\* the transition-duration style of the popup get_swal() returns
HeadStyle == style[OptionsOf(dom[1].opt).animation]

\* the step is a fire or close call that finds a popup mounted, and so calls
\* get_transition_duration on it, with nothing memoized yet
ReadsStyle ==
    /\ last'.op \in {"fire", "close"}
    /\ Len(dom) > 0
    /\ TRANSITION_DURATION = -1

\* C37: a get_transition_duration call that cannot read the style returns 0
\* (the detach is scheduled after 0, the reopen after 1 unit) without
\* aborting and leaves TRANSITION_DURATION at -1; a call made while it is -1
\* reads the style of the popup passed, and stores what it reads if that is
\* well-formed.
C37_UnreadableNotCached ==
    [][/\ (ReadsStyle /\ HeadStyle = StyleErr) =>
             /\ TRANSITION_DURATION' = -1
             /\ ~last'.panic
             /\ Registered # {}
             /\ \A r \in Registered :
                   /\ r.kind = "detach" => r.dur = 0
                   /\ r.kind = "open" => r.dur = 1
       /\ (ReadsStyle /\ HeadStyle \in WellFormedStyles) =>
             TRANSITION_DURATION' = DurationOf(HeadStyle)]_vars

\* a close read the style of the second popup and stored 2 after an earlier
\* close could not read a style: its detach timer, scheduled after 0, is
\* still pending
C37_Witness ==
    /\ last.op = "close"
    /\ TRANSITION_DURATION = 2
    /\ style[TRUE] = StyleErr
    /\ Len(dom) = 1
    /\ dom[1].id = 2
    /\ dom[1].opt = "plain"
    /\ \E k \in 1..Len(timers) : timers[k].kind = "detach" /\ timers[k].dur = 0

====
